---- MODULE Spec2Model ----
(***************************************************************************)
(* TubeMetrics API (src/main.py): cookie + JWT authentication provided by  *)
(* fastapi-users, and the onboarding profile upsert/read endpoints.        *)
(*                                                                         *)
(* The relational store is the two tables "user" and "onboarding_profiles",*)
(* on PostgreSQL at its default isolation level (read committed).          *)
(* Every HTTP request runs in its own AsyncSession.  A request handler is  *)
(* one atomic step per database round trip: the two handlers that read and *)
(* then write (POST /onboarding, POST /auth/register) are two steps, with  *)
(* the request kept in the bag of requests in flight in between, so that   *)
(* concurrent requests interleave exactly at the awaits of the code.       *)
(*                                                                         *)
(* Optional values (None in the code) are sequences of length 0 or 1.      *)
(* created_at / updated_at are not modelled: no endpoint returns them.     *)
(***************************************************************************)
EXTENDS Integers, Sequences, FiniteSets, Bags, TLC

(* ------------------------------ bounds --------------------------------- *)
MaxUsers == 2
MaxInFlight == 2
MaxTicks == 3
MaxProfileId == 3
MaxHistory == 2
TickSeconds == 1800

(* ------------------------- program constants --------------------------- *)
lifetime_seconds == 3600
SECRET == "a_default_secret_key_for_local_dev"

HTTP_200_OK == 200
HTTP_201_CREATED == 201
HTTP_204_NO_CONTENT == 204
HTTP_400_BAD_REQUEST == 400
HTTP_401_UNAUTHORIZED == 401
HTTP_404_NOT_FOUND == 404
HTTP_422_UNPROCESSABLE == 422
HTTP_500_SERVER_ERROR == 500

(* ------------------------------ inputs --------------------------------- *)
Clients == {"c1", "c2"}
Emails == {"a@x", "A@x", "b@x"}
Passwords == {"p1", "p2"}
UserIds == 1..MaxUsers

None == <<>>
Some(x) == <<x>>

Null == "<null>"
Absent == "<absent>"

\* What a client does with its cookie jar when it sends a request.
CookieKinds == {"asis", "none", "altersub", "alterexp", "forged"}

\* JSON bodies sent to POST /onboarding (a field may be left out).
FullBody ==
    [role |-> "r1", primary_goal |-> "g1", niche |-> "n1",
     posting_cadence |-> "c1", audience_desc |-> "a1", is_complete |-> "false"]
MinimalBody ==
    [role |-> "r2", primary_goal |-> "g2", niche |-> Absent,
     posting_cadence |-> Absent, audience_desc |-> Absent, is_complete |-> Absent]
PartialBody ==
    [role |-> "r1", primary_goal |-> "g2", niche |-> Absent,
     posting_cadence |-> "c1", audience_desc |-> Absent, is_complete |-> "true"]
InvalidBody ==
    [role |-> Absent, primary_goal |-> "g1", niche |-> "n1",
     posting_cadence |-> Absent, audience_desc |-> Absent, is_complete |-> Absent]
Bodies == {FullBody, MinimalBody, PartialBody, InvalidBody}

VARIABLES
    users,      \* table "user"
    profiles,   \* table "onboarding_profiles"
    nextId,     \* the serial sequence behind onboarding_profiles.id
    clock,      \* server time, in seconds
    jar,        \* jar[c]: the "tubemetrics" cookie client c holds, if any
    holder,     \* holder[c]: the e-mail client c logged in with (history)
    inflight,   \* the bag of requests suspended between their read and their commit
    submitted,  \* submitted[u]: payloads of u's latest successful POST /onboarding
                \* requests, the last one at the end (history)
    resp        \* the last HTTP response sent

vars == <<users, profiles, nextId, clock, jar, holder, inflight, submitted, resp>>

(* --------------------------- pure functions ---------------------------- *)

\* func.lower() as get_by_email applies it to both sides of the comparison.
Lower(e) == IF e = "A@x" THEN "a@x" ELSE e

\* PasswordHelper.hash / verify_and_update.
Hash(p) == <<"hash", p>>
Verify(p, h) == Hash(p) = h

\* The HS256 signature of a JWT: a MAC of the claims under a key.
Mac(key, sub, exp) == <<key, sub, exp>>

\* JWTStrategy.write_token: the subject and an expiry lifetime_seconds ahead.
write_token_firstuser(uid, now) ==
    [sub |-> 1, exp |-> now + lifetime_seconds,
     sig |-> Mac(SECRET, 1, now + lifetime_seconds)]
write_token(uid, now) ==
    [sub |-> uid, exp |-> now + lifetime_seconds,
     sig |-> Mac(SECRET, uid, now + lifetime_seconds)]

OtherSub(sub) == (sub % (MaxUsers + 1)) + 1

\* The cookie a client presents: its own, none, or a manipulated copy.
Presented(c, kind) ==
    IF kind = "none" \/ jar[c] = None THEN None
    ELSE LET t == jar[c][1] IN
         CASE kind = "asis" -> Some(t)
           [] kind = "altersub" -> Some([t EXCEPT !.sub = OtherSub(t.sub)])
           [] kind = "alterexp" -> Some([t EXCEPT !.exp = t.exp + lifetime_seconds])
           [] OTHER -> Some([sub |-> t.sub, exp |-> t.exp + lifetime_seconds,
                             sig |-> Mac("guess", t.sub, t.exp + lifetime_seconds)])

UserById(uid) ==
    LET m == {u \in users : u.id = uid}
    IN IF m = {} THEN None ELSE Some(CHOOSE u \in m : TRUE)

\* JWTStrategy.read_token: decode (signature, expiry), then load the user.
SignatureOk(t) == t.sig = Mac(SECRET, t.sub, t.exp)
Expired_never(t, now) == FALSE
Expired(t, now) == t.exp <= now
read_token(cookie, now) ==
    IF cookie = None THEN None
    ELSE LET t == cookie[1] IN
         IF ~SignatureOk(t) \/ Expired(t, now) THEN None ELSE UserById(t.sub)

\* fastapi_users.current_user(): the user, or None for a 401.
current_user(cookie, now) == read_token(cookie, now)

\* OnboardingIn: required fields, defaults of the optional ones.
ParseBool(s) == IF s = "false" THEN FALSE ELSE TRUE
OnboardingIn(body) ==
    IF body.role = Absent \/ body.primary_goal = Absent THEN None
    ELSE Some([role |-> body.role,
               primary_goal |-> body.primary_goal,
               niche |-> IF body.niche = Absent THEN Null ELSE body.niche,
               posting_cadence |-> IF body.posting_cadence = Absent THEN Null
                                   ELSE body.posting_cadence,
               audience_desc |-> IF body.audience_desc = Absent THEN Null
                                 ELSE body.audience_desc,
               is_complete |-> IF body.is_complete = Absent THEN TRUE
                               ELSE ParseBool(body.is_complete)])

MutableFields ==
    {"role", "primary_goal", "niche", "posting_cadence", "audience_desc", "is_complete"}

\* OnboardingOut: the six fields and the id (user_id is not serialised).
OnboardingOut(row) ==
    [id |-> row.id, role |-> row.role, primary_goal |-> row.primary_goal,
     niche |-> row.niche, posting_cadence |-> row.posting_cadence,
     audience_desc |-> row.audience_desc, is_complete |-> row.is_complete]

\* The six fields of a row or of a response body, as a payload.
FieldsOf(r) == [f \in MutableFields |-> r[f]]

\* OnboardingProfile(user_id=..., role=..., ...) with the id the store assigns.
NewProfile_wrongowner(id, uid, payload) ==
    [id |-> id, user_id |-> id, role |-> payload.role,
     primary_goal |-> payload.primary_goal, niche |-> payload.niche,
     posting_cadence |-> payload.posting_cadence,
     audience_desc |-> payload.audience_desc, is_complete |-> payload.is_complete]
NewProfile(id, uid, payload) ==
    [id |-> id, user_id |-> uid, role |-> payload.role,
     primary_goal |-> payload.primary_goal, niche |-> payload.niche,
     posting_cadence |-> payload.posting_cadence,
     audience_desc |-> payload.audience_desc, is_complete |-> payload.is_complete]

\* select(OnboardingProfile).where(OnboardingProfile.user_id == user.id)
SelectProfiles_nowhere(uid) == profiles
SelectProfiles(uid) == {p \in profiles : p.user_id = uid}

\* Constraints of onboarding_profiles.user_id: unique, and a foreign key.
UniqueViolation_missing(uid) == FALSE
UniqueViolation(uid) == \E p \in profiles : p.user_id = uid
ForeignKeyViolation(uid) == ~\E u \in users : u.id = uid

\* The attributes the session flushes at commit.  The ORM compares each
\* assigned attribute with the value the session loaded (line 201) and puts
\* only those that differ into the UPDATE statement; when none differs, no
\* UPDATE is sent at all.
Dirty(loaded, payload) == {f \in MutableFields : payload[f] # loaded[f]}

\* UPDATE onboarding_profiles SET <dirty columns> WHERE id = <loaded id>
UpdateRow_forgets(row, loaded, payload) ==
    [f \in DOMAIN row |->
        IF f \in Dirty(loaded, payload) \ {"niche"} THEN payload[f] ELSE row[f]]
UpdateRow(row, loaded, payload) ==
    [f \in DOMAIN row |-> IF f \in Dirty(loaded, payload) THEN payload[f] ELSE row[f]]

UserRead(u) == [id |-> u.id, email |-> u.email]

(* ------------------------------- state --------------------------------- *)

\* A request in flight: what it sent and what its session has loaded so far.
Request ==
    [kind |-> "", email |-> "", password |-> "", cookie |-> None, user |-> 0,
     payload |-> None, loaded |-> None]

Suspend(r) == inflight' = inflight (+) SetToBag({r})
Resume(r) == inflight' = inflight (-) SetToBag({r})

\* The history of successful submissions, cut to its latest `keep` entries.
Record(history, payload, keep) ==
    LET h == Append(history, payload)
    IN IF Len(h) > keep THEN Tail(h) ELSE h

\* A response: the request it answers (op, cookie presented, e-mail sent) and the
\* outcome (status, user or profile in the body).  seq tells a response from an
\* equal one sent just before it.
Response(op, cookie, email, status, user, row) ==
    LET r == [seq |-> 0, op |-> op, cookie |-> cookie, email |-> email,
              status |-> status, user |-> user, row |-> row]
    IN IF r = resp THEN [r EXCEPT !.seq = 1] ELSE r

Init ==
    /\ users = {}
    /\ profiles = {}
    /\ nextId = 1
    /\ clock = 0
    /\ jar = [c \in Clients |-> None]
    /\ holder = [c \in Clients |-> ""]
    /\ inflight = EmptyBag
    /\ submitted = [u \in UserIds |-> None]
    /\ resp = [seq |-> 0, op |-> "none", cookie |-> None, email |-> "",
               status |-> 0, user |-> None, row |-> None]

Tick ==
    /\ clock + TickSeconds <= MaxTicks * TickSeconds
    /\ clock' = clock + TickSeconds
    /\ UNCHANGED <<users, profiles, nextId, jar, holder, inflight, submitted, resp>>

(* ----------------------- POST /auth/register --------------------------- *)

\* get_by_email: case-insensitive match on the e-mail.
get_by_email(email) == {u \in users : Lower(u.email) = Lower(email)}

\* The unique index on user.email compares the stored strings.
EmailTaken_missing(email) == FALSE
EmailTaken(email) == \E u \in users : u.email = email

\* UserManager.create(safe=True): hashed password, default flags, a fresh UUID.
NewUser(email, password) ==
    [id |-> Cardinality(users) + 1, email |-> email, hashed_password |-> Hash(password),
     is_active |-> TRUE]

\* The number of registrations in flight.
Registering ==
    BagCardinality([r \in {x \in BagToSet(inflight) : x.kind = "register"} |->
                       CopiesIn(r, inflight)])

\* First half of UserManager.create: look the e-mail up, refuse a known one.
\* At most `room` requests are in flight.
RegisterCheck(room, email, password) ==
    /\ BagCardinality(inflight) < room
    /\ Cardinality(users) + Registering < MaxUsers
    /\ IF Cardinality(get_by_email(email)) > 1     \* scalar_one_or_none raises
       THEN /\ resp' = Response("register", None, email, HTTP_500_SERVER_ERROR, None, None)
            /\ UNCHANGED inflight
       ELSE IF get_by_email(email) # {}
       THEN /\ resp' = Response("register", None, email, HTTP_400_BAD_REQUEST, None, None)
            /\ UNCHANGED inflight
       ELSE /\ Suspend([Request EXCEPT !.kind = "register", !.email = email,
                                       !.password = password])
            /\ UNCHANGED resp
    /\ UNCHANGED <<users, profiles, nextId, clock, jar, holder, submitted>>

\* Second half: INSERT INTO "user" and commit.
RegisterCommit(r) ==
    /\ BagIn(r, inflight) /\ r.kind = "register"
    /\ Resume(r)
    /\ IF EmailTaken(r.email)
       THEN /\ resp' = Response("register", None, r.email, HTTP_500_SERVER_ERROR,
                                None, None)
            /\ UNCHANGED users
       ELSE /\ users' = users \cup {NewUser(r.email, r.password)}
            /\ resp' = Response("register", None, r.email, HTTP_201_CREATED,
                                Some(UserRead(NewUser(r.email, r.password))), None)
    /\ UNCHANGED <<profiles, nextId, clock, jar, holder, submitted>>

(* ---------------- POST /auth/jwt/login, /auth/jwt/logout --------------- *)

\* UserManager.authenticate, then the is_active test of the login route.
Authenticate(email, password) ==
    LET m == get_by_email(email)
    IN IF m = {} THEN None
       ELSE LET u == CHOOSE x \in m : TRUE
            IN IF Verify(password, u.hashed_password) /\ u.is_active
               THEN Some(u) ELSE None

Login(c, email, password) ==
    /\ IF Cardinality(get_by_email(email)) > 1     \* scalar_one_or_none raises
       THEN /\ resp' = Response("login", None, email, HTTP_500_SERVER_ERROR, None, None)
            /\ UNCHANGED <<jar, holder>>
       ELSE IF Authenticate(email, password) = None
       THEN /\ resp' = Response("login", None, email, HTTP_400_BAD_REQUEST, None, None)
            /\ UNCHANGED <<jar, holder>>
       ELSE LET u == Authenticate(email, password)[1] IN
            /\ jar' = [jar EXCEPT ![c] = Some(write_token(u.id, clock))]
            /\ holder' = [holder EXCEPT ![c] = email]
            /\ resp' = Response("login", Some(write_token(u.id, clock)), email,
                                HTTP_204_NO_CONTENT, None, None)
    /\ UNCHANGED <<users, profiles, nextId, clock, inflight, submitted>>

Logout(c, kind) ==
    /\ LET cookie == Presented(c, kind)
           user == current_user(cookie, clock)
       IN IF user = None
          THEN /\ resp' = Response("logout", cookie, "", HTTP_401_UNAUTHORIZED, None, None)
               /\ UNCHANGED <<jar, holder>>
          ELSE /\ jar' = [jar EXCEPT ![c] = None]
               /\ holder' = [holder EXCEPT ![c] = ""]
               /\ resp' = Response("logout", cookie, "", HTTP_204_NO_CONTENT, None, None)
    /\ UNCHANGED <<users, profiles, nextId, clock, inflight, submitted>>

(* --------------------------- GET /users/me ----------------------------- *)

authenticated_route(c, kind) ==
    /\ LET cookie == Presented(c, kind)
           user == current_user(cookie, clock)
       IN IF user = None
          THEN resp' = Response("users_me", cookie, "", HTTP_401_UNAUTHORIZED, None, None)
          ELSE resp' = Response("users_me", cookie, "", HTTP_200_OK,
                                Some(UserRead(user[1])), None)
    /\ UNCHANGED <<users, profiles, nextId, clock, jar, holder, inflight, submitted>>

(* -------------------------- GET /onboarding/me ------------------------- *)

\* "if not profile" left out: the handler returns whatever the query gave.
get_my_onboarding_nocheck(c, kind) ==
    /\ LET cookie == Presented(c, kind)
           user == current_user(cookie, clock)
       IN IF user = None
          THEN resp' = Response("get_onboarding", cookie, "", HTTP_401_UNAUTHORIZED,
                                None, None)
          ELSE LET found == SelectProfiles(user[1].id) IN
               IF Cardinality(found) > 1
               THEN resp' = Response("get_onboarding", cookie, "", HTTP_500_SERVER_ERROR,
                                     None, None)
               ELSE IF found = {}
               THEN resp' = Response("get_onboarding", cookie, "", HTTP_200_OK, None, None)
               ELSE resp' = Response("get_onboarding", cookie, "", HTTP_200_OK, None,
                                     Some(OnboardingOut(CHOOSE p \in found : TRUE)))
    /\ UNCHANGED <<users, profiles, nextId, clock, jar, holder, inflight, submitted>>

get_my_onboarding(c, kind) ==
    /\ LET cookie == Presented(c, kind)
           user == current_user(cookie, clock)
       IN IF user = None
          THEN resp' = Response("get_onboarding", cookie, "", HTTP_401_UNAUTHORIZED,
                                None, None)
          ELSE LET found == SelectProfiles(user[1].id) IN
               IF Cardinality(found) > 1     \* scalar_one_or_none raises
               THEN resp' = Response("get_onboarding", cookie, "", HTTP_500_SERVER_ERROR,
                                     None, None)
               ELSE IF found = {}
               THEN resp' = Response("get_onboarding", cookie, "", HTTP_404_NOT_FOUND,
                                     None, None)
               ELSE resp' = Response("get_onboarding", cookie, "", HTTP_200_OK, None,
                                     Some(OnboardingOut(CHOOSE p \in found : TRUE)))
    /\ UNCHANGED <<users, profiles, nextId, clock, jar, holder, inflight, submitted>>

(* --------------------------- POST /onboarding -------------------------- *)

\* Dependencies, body validation and the SELECT (lines 192-201).
\* At most `room` requests are in flight.
UpsertRead(room, c, kind, body) ==
    /\ BagCardinality(inflight) < room
    /\ LET cookie == Presented(c, kind)
           user == current_user(cookie, clock)
           payload == OnboardingIn(body)
       IN IF user = None
          THEN /\ resp' = Response("post_onboarding", cookie, "", HTTP_401_UNAUTHORIZED,
                                   None, None)
               /\ UNCHANGED inflight
          ELSE IF payload = None
          THEN /\ resp' = Response("post_onboarding", cookie, "", HTTP_422_UNPROCESSABLE,
                                   None, None)
               /\ UNCHANGED inflight
          ELSE LET found == SelectProfiles(user[1].id) IN
               IF Cardinality(found) > 1     \* scalar_one_or_none raises
               THEN /\ resp' = Response("post_onboarding", cookie, "",
                                        HTTP_500_SERVER_ERROR, None, None)
                    /\ UNCHANGED inflight
               ELSE /\ Suspend([Request EXCEPT
                                  !.kind = "upsert", !.cookie = cookie,
                                  !.user = user[1].id, !.payload = payload,
                                  !.loaded = IF found = {} THEN None
                                             ELSE Some(CHOOSE p \in found : TRUE)])
                    /\ UNCHANGED resp
    /\ UNCHANGED <<users, profiles, nextId, clock, jar, holder, submitted>>

\* session.add(profile) ... commit, refresh: the INSERT (lines 203-213, 222-224).
CommitInsert_swallow(r, keep) ==
    LET row == NewProfile(nextId, r.user, r.payload[1])
    IN /\ nextId' = nextId + 1
       /\ IF UniqueViolation(row.user_id) \/ ForeignKeyViolation(row.user_id)
          THEN /\ resp' = Response("post_onboarding", r.cookie, "", HTTP_200_OK, None,
                                   Some(OnboardingOut(row)))
               /\ UNCHANGED <<profiles, submitted>>
          ELSE /\ profiles' = profiles \cup {row}
               /\ submitted' = [submitted EXCEPT
                                  ![r.user] = Record(@, r.payload[1], keep)]
               /\ resp' = Response("post_onboarding", r.cookie, "", HTTP_200_OK, None,
                                   Some(OnboardingOut(row)))
CommitInsert(r, keep) ==
    LET row == NewProfile(nextId, r.user, r.payload[1])
    IN /\ nextId' = nextId + 1
       /\ IF UniqueViolation(row.user_id) \/ ForeignKeyViolation(row.user_id)
          THEN /\ resp' = Response("post_onboarding", r.cookie, "",
                                   HTTP_500_SERVER_ERROR, None, None)
               /\ UNCHANGED <<profiles, submitted>>
          ELSE /\ profiles' = profiles \cup {row}
               /\ submitted' = [submitted EXCEPT
                                  ![r.user] = Record(@, r.payload[1], keep)]
               /\ resp' = Response("post_onboarding", r.cookie, "", HTTP_200_OK, None,
                                   Some(OnboardingOut(row)))

\* profile.role = payload.role ... commit, refresh: the UPDATE (lines 214-224).
CommitUpdate(r, keep) ==
    LET loaded == r.loaded[1]
        old == CHOOSE p \in profiles : p.id = loaded.id
        new == UpdateRow(old, loaded, r.payload[1])
    IN /\ profiles' = (profiles \ {old}) \cup {new}
       /\ submitted' = [submitted EXCEPT ![r.user] = Record(@, r.payload[1], keep)]
       /\ resp' = Response("post_onboarding", r.cookie, "", HTTP_200_OK, None,
                           Some(OnboardingOut(new)))
       /\ UNCHANGED nextId

\* The commit of request r; `keep` is the length of history kept in submitted.
UpsertCommit(r, keep) ==
    /\ BagIn(r, inflight) /\ r.kind = "upsert"
    /\ r.loaded = None => nextId <= MaxProfileId
    /\ Resume(r)
    /\ IF r.loaded = None THEN CommitInsert(r, keep) ELSE CommitUpdate(r, keep)
    /\ UNCHANGED <<users, clock, jar, holder>>

(* ---------------------------- specifications --------------------------- *)

InFlight == BagToSet(inflight)

\* Concurrent onboarding: up to MaxInFlight POST /onboarding requests are
\* suspended between their read and their commit.  Registrations are sent
\* while no request is in flight; SpecReg interleaves them.
ConcEmails == {"a@x", "b@x"}
ConcPasswords == {"p1"}
ConcClients == {"c1"}
ConcKinds == {"asis"}
ConcBodies == {FullBody, MinimalBody}

Next ==
    \/ \E e \in ConcEmails, p \in ConcPasswords : RegisterCheck(1, e, p)
    \/ \E r \in InFlight : RegisterCommit(r)
    \/ \E c \in ConcClients, e \in ConcEmails, p \in ConcPasswords : Login(c, e, p)
    \/ \E c \in ConcClients, k \in ConcKinds : get_my_onboarding(c, k)
    \/ \E c \in ConcClients, k \in ConcKinds, b \in ConcBodies :
          UpsertRead(MaxInFlight, c, k, b)
    \/ \E r \in InFlight : UpsertCommit(r, 1)

Spec == Init /\ [][Next]_vars

\* Sequential onboarding: a request is answered before the next one is sent.
SeqBodies == {FullBody, PartialBody, InvalidBody}

NextSeq ==
    \/ \E e \in ConcEmails, p \in ConcPasswords : RegisterCheck(1, e, p)
    \/ \E r \in InFlight : RegisterCommit(r)
    \/ \E c \in ConcClients, e \in ConcEmails, p \in ConcPasswords : Login(c, e, p)
    \/ \E c \in ConcClients, k \in ConcKinds : get_my_onboarding(c, k)
    \/ \E c \in ConcClients, k \in ConcKinds, b \in SeqBodies : UpsertRead(1, c, k, b)
    \/ \E r \in InFlight : UpsertCommit(r, MaxHistory)

SpecSeq == Init /\ [][NextSeq]_vars

\* Authentication: time passes, and a client presents its cookie, none, or a
\* tampered one to every protected endpoint.
AuthBodies == {MinimalBody}

NextAuth ==
    \/ Tick
    \/ \E e \in ConcEmails, p \in ConcPasswords : RegisterCheck(1, e, p)
    \/ \E r \in InFlight : RegisterCommit(r)
    \/ \E c \in ConcClients, e \in ConcEmails, p \in Passwords : Login(c, e, p)
    \/ \E c \in ConcClients, k \in CookieKinds : Logout(c, k)
    \/ \E c \in ConcClients, k \in CookieKinds : authenticated_route(c, k)
    \/ \E c \in ConcClients, k \in CookieKinds : get_my_onboarding(c, k)
    \/ \E c \in ConcClients, k \in CookieKinds, b \in AuthBodies : UpsertRead(1, c, k, b)
    \/ \E r \in InFlight : UpsertCommit(r, 1)

SpecAuth == Init /\ [][NextAuth]_vars

\* Concurrent registration.
NextReg ==
    \/ \E e \in Emails, p \in Passwords : RegisterCheck(MaxInFlight, e, p)
    \/ \E r \in InFlight : RegisterCommit(r)
    \/ \E c \in ConcClients, e \in Emails, p \in Passwords : Login(c, e, p)

SpecReg == Init /\ [][NextReg]_vars

\* Login from several clients and GET /users/me with the issued cookie, as
\* time passes.
NextLogin ==
    \/ Tick
    \/ \E e \in Emails, p \in Passwords : RegisterCheck(1, e, p)
    \/ \E r \in InFlight : RegisterCommit(r)
    \/ \E c \in Clients, e \in Emails, p \in Passwords : Login(c, e, p)
    \/ \E c \in Clients, k \in ConcKinds : authenticated_route(c, k)

SpecLogin == Init /\ [][NextLogin]_vars

(* ------------------------------- claims -------------------------------- *)

\* The step in which the POST /onboarding request r in flight commits.
Commits(r) == r.kind = "upsert" /\ inflight' = inflight (-) SetToBag({r})
\* A step that sends a response.
Responds == resp' # resp

\* C2: under every interleaving of concurrent POST /onboarding requests, the
\* store never holds two OnboardingProfile rows with the same user_id.
C2_OneProfilePerUser ==
    \A p, q \in profiles : p.user_id = q.user_id => p = q

\* Two first-time requests of one user raced: the second to commit was refused.
C2_Witness ==
    /\ resp.op = "post_onboarding" /\ resp.status = 500
    /\ \E p \in profiles : p.user_id = resp.cookie[1].sub

\* C10: of two first-time POST /onboarding requests of one user that both read
\* "no profile", the first to commit inserts its row and is answered 200; the
\* other fails on the unique constraint, is answered with an error, and leaves
\* the stored rows as they were.
C10_RaceHasOneWinner ==
    [][\A r \in InFlight :
         (Commits(r) /\ r.loaded = None) =>
            LET uid == r.cookie[1].sub
                mine == {p \in profiles : p.user_id = uid}
            IN IF mine = {}
               THEN /\ resp'.status = 200 /\ Responds
                    /\ \E p \in profiles' :
                          /\ profiles' = profiles \cup {p} /\ p \notin profiles
                          /\ p.user_id = uid
                          /\ FieldsOf(p) = r.payload[1]
               ELSE /\ resp'.status = 500 /\ Responds
                    /\ profiles' = profiles]_vars

\* The loser of the race has been answered; the winner's row is in place.
C10_Witness ==
    /\ resp.op = "post_onboarding" /\ resp.status = 500
    /\ \E u \in UserIds :
          /\ submitted[u] # <<>>
          /\ \E p \in profiles :
                p.user_id = u /\ FieldsOf(p) = submitted[u][Len(submitted[u])]
          /\ nextId = Cardinality(profiles) + 2

\* C9: a POST /onboarding by user A creates or changes only A's row, and
\* GET /onboarding/me by A returns only a row whose user_id is A, under any
\* interleaving of requests by several users.
C9_OwnershipIsolation ==
    [][/\ \A r \in InFlight :
            Commits(r) =>
               LET uid == r.cookie[1].sub
               IN {p \in profiles : p.user_id # uid} = {p \in profiles' : p.user_id # uid}
       /\ (~(\E r \in InFlight : Commits(r))) => profiles' = profiles
       /\ (Responds /\ resp'.op = "get_onboarding" /\ resp'.status = 200) =>
             \E p \in profiles :
                /\ p.user_id = resp'.cookie[1].sub
                /\ resp'.row = Some(OnboardingOut(p))]_vars

\* Two users own a profile each, one of them was just read by its owner.
C9_Witness ==
    /\ resp.op = "get_onboarding" /\ resp.status = 200
    /\ \E p, q \in profiles : p.user_id # q.user_id /\ FieldsOf(p) # FieldsOf(q)

\* C8: when POST /onboarding finds an existing profile, the row after the commit
\* equals the payload on all six mutable fields, with id and user_id unchanged.
C8_UpdateOverwritesAllFields ==
    [][\A r \in InFlight :
         (Commits(r) /\ r.loaded # None) =>
            \E p \in profiles' :
               /\ p.id = r.loaded[1].id
               /\ p.user_id = r.loaded[1].user_id
               /\ FieldsOf(p) = r.payload[1]
               /\ \A q \in profiles' : q.id = p.id => q = p]_vars

\* A user must be authenticated by a cookie: present, signed with the secret,
\* not yet expired, naming a registered user.
Authentic(cookie, now) ==
    /\ cookie # None
    /\ cookie[1].sig = <<SECRET, cookie[1].sub, cookie[1].exp>>
    /\ now < cookie[1].exp
    /\ \E u \in users : u.id = cookie[1].sub

\* C4: GET /onboarding/me by an authenticated user answers 404 exactly when no
\* OnboardingProfile row has that user's id: 404 for a user who never submitted
\* successfully, never 404 after that user's first successful POST /onboarding.
C4_NotFoundIffNoProfile ==
    [][(Responds /\ resp'.op = "get_onboarding" /\ Authentic(resp'.cookie, clock)) =>
          LET uid == resp'.cookie[1].sub
          IN /\ resp'.status \in {200, 404}
             /\ resp'.status = 404 <=> (\A p \in profiles : p.user_id # uid)
             /\ resp'.status = 404 <=> submitted[uid] = <<>>]_vars

\* A user without a profile was answered 404 while another user has one.
C4_Witness ==
    /\ resp.op = "get_onboarding" /\ resp.status = 404
    /\ Authentic(resp.cookie, clock)
    /\ submitted[resp.cookie[1].sub] = <<>>
    /\ profiles # {}

\* C7: every OnboardingProfile row's user_id references an existing User row; a
\* row is only ever created or changed with the id of the authenticated,
\* existing user, and no step removes a User.
C7_ReferentialIntegrity ==
    [][/\ \A p \in profiles' : \E u \in users' : u.id = p.user_id
       /\ \A u \in users : u \in users'
       /\ \A r \in InFlight :
             Commits(r) =>
                \A p \in profiles' \ profiles :
                   /\ p.user_id = r.cookie[1].sub
                   /\ \E u \in users : u.id = p.user_id]_vars

\* Both registered users own a profile.
C7_Witness ==
    /\ Cardinality(users) = 2
    /\ \A u \in users : \E p \in profiles : p.user_id = u.id

Last(h) == h[Len(h)]

\* C1: after any sequence of successful sequential POST /onboarding requests by
\* a user, exactly one OnboardingProfile row exists for that user, it holds the
\* values of the last submission, and GET /onboarding/me returns those values.
C1_SequentialUpsert ==
    [][/\ \A u \in UserIds :
            submitted'[u] # <<>> =>
               \E p \in profiles' :
                  /\ p.user_id = u
                  /\ FieldsOf(p) = Last(submitted'[u])
                  /\ \A q \in profiles' : q.user_id = u => q = p
       /\ (/\ Responds /\ resp'.op = "get_onboarding"
           /\ Authentic(resp'.cookie, clock)
           /\ submitted[resp'.cookie[1].sub] # <<>>) =>
             /\ resp'.status = 200
             /\ FieldsOf(resp'.row[1]) = Last(submitted[resp'.cookie[1].sub])]_vars

\* A user submitted twice with different values and then read the profile.
C1_Witness ==
    /\ resp.op = "get_onboarding" /\ resp.status = 200
    /\ LET h == submitted[resp.cookie[1].sub]
       IN /\ Len(h) = 2 /\ h[1] # h[2]
          /\ FieldsOf(resp.row[1]) = h[2]

\* A cookie that must be refused: absent, not signed with the secret, or past
\* its expiry.
Rejectable(cookie, now) ==
    \/ cookie = None
    \/ cookie[1].sig # <<SECRET, cookie[1].sub, cookie[1].exp>>
    \/ now > cookie[1].exp

C5_LoginIdentity ==
    [][\A c \in Clients :
         (/\ Responds /\ resp'.op = "users_me"
          /\ jar[c] # None /\ resp'.cookie = jar[c]
          /\ clock < jar[c][1].exp) =>
            /\ resp'.status = 200
            /\ \E u \in users :
                  /\ Lower(u.email) = Lower(holder[c])
                  /\ resp'.user = Some([id |-> u.id, email |-> u.email])]_vars

\* Two users are logged in from two clients; the second one read its identity.
C5_Witness ==
    /\ resp.op = "users_me" /\ resp.status = 200
    /\ jar["c1"] # None /\ jar["c2"] # None
    /\ jar["c1"][1].sub # jar["c2"][1].sub
    /\ resp.user[1].id = 2

\* C6: once a user is registered with an e-mail, every later registration with
\* the same e-mail fails and leaves the User rows unchanged; no two User rows
\* share an e-mail.
C6_DuplicateEmailRejected ==
    [][/\ \A u, v \in users' : u.email = v.email => u = v
       /\ (/\ Responds /\ resp'.op = "register"
           /\ \E u \in users : u.email = resp'.email) =>
             /\ resp'.status \in {400, 500}
             /\ users' = users]_vars

\* A registration with an e-mail already registered was refused.
C6_Witness ==
    /\ resp.op = "register" /\ resp.status = 400
    /\ \E u \in users : u.email = resp.email

====
